---------------------------- MODULE Spec2Model ----------------------------
(***************************************************************************)
(* A model of elastic-debugger's discovery and resolution engine:          *)
(*   - Bridgehub::detect_chains                      (src/src/bridgehub.rs) *)
(*   - Bridgehub::detect_chains_with_newchain_event                         *)
(*   - Bridgehub::print_detailed_info / get_chain_details                   *)
(*   - L1AssetRouter::new / RegisteredAsset::new (src/src/l1_asset_router.rs)*)
(*   - StateTransition::new                   (src/src/statetransition.rs)  *)
(* Each entry point has its own specification (SpecDetect, SpecScan,       *)
(* SpecDetails, SpecAssets, SpecST); the variables of the other entry       *)
(* points stay idle.                                                        *)
(***************************************************************************)
EXTENDS Integers, Sequences, FiniteSets, TLC

VARIABLES
    \* ---- the chain as seen through the provider (scan) ----
    head,            \* what get_block_number returns
    chainLogs,       \* every log of the chain: [block, address, topics]
    window,          \* the page size of the scan (10000 in the code)
    \* ---- detect_chains_with_newchain_event ----
    scan_pc,         \* "idle" | "start" | "loop" | "await" | "done" | "err" | "panic"
    current_block,   \* the cursor
    known_chains,    \* the accumulating HashSet<u64>
    filter,          \* the outstanding get_logs filter, or NoFilter
    queries,         \* the filters issued so far, in order
    replies,         \* the provider's replies so far, in order: [fn, ok]
    \* ---- Bridgehub::detect_chains ----
    sequencer_type,  \* "L1" or "L2": the role of the connected sequencer
    hyperchains,     \* what detect_hyperchains returned: [asked, pairs]
    detect_pc,       \* "idle" | "start" | "scanning" | "await_hyperchains" | "done" | "err" | "panic"
    detect_result,   \* what detect_chains returned
    \* ---- the hub's contracts as seen by get_chain_details ----
    onchain,         \* per chain id: what the queries return and which fail
    \* ---- Bridgehub::print_detailed_info / get_chain_details ----
    self_known_chains, \* the field known_chains: NoChains (None) or a set
    pdi_pc,          \* "idle" | "start" | "iter" | "q_*" | "done" | "err"
    chains,          \* the chains the for loop has still to visit
    chain_id,        \* the chain being resolved
    loc,             \* get_chain_details' locals
    calls,           \* the contract calls issued so far, in order
    results,         \* per chain id: what get_chain_details returned
    stdout,          \* what println! has written, in order
    run,             \* which invocation of print_detailed_info this is
    prev_results,    \* what get_chain_details returned in the invocation before
    \* ---- the asset router's contracts ----
    router_cfg,      \* what nativeTokenVault() and BRIDGE_HUB() return
    router_events,   \* the AssetHandlerRegisteredInitial logs, in scan order
    vault_tokens,    \* the vault's tokenAddress mapping
    \* ---- L1AssetRouter::new / RegisteredAsset::new ----
    ar_pc,           \* "idle" | "q_vault" | "q_hub" | "q_events" | "joining" | "done" | "panic"
    native_token_vault, \* the local native_token_vault
    bridgehub,       \* the local bridgehub
    tasks,           \* the futures handed to join_all, in order
    registered_assets, \* the HashMap of the returned L1AssetRouter
    completed,       \* the futures that have completed, in completion order
    \* ---- the transition contract ----
    st_contract,     \* what the getters of IHyperchain return
    \* ---- StateTransition::new ----
    st_pc,           \* "idle" | "calling" | "done" | "err"
    st_next,         \* the index of the next call
    st_loc,          \* the locals bound so far
    st_calls,        \* the getters called so far, in order
    st_result        \* the returned StateTransition

scanVars == <<head, chainLogs, window, scan_pc, current_block, known_chains,
              filter, queries, replies>>

detailsVars == <<onchain, self_known_chains, pdi_pc, chains, chain_id, loc,
                 calls, results, stdout>>

assetVars == <<router_cfg, router_events, vault_tokens, ar_pc, native_token_vault,
               bridgehub, tasks, registered_assets>>

stVars == <<st_contract, st_pc, st_next, st_loc, st_calls, st_result>>

joinVars == <<completed>>

rerunVars == <<run, prev_results>>

detectVars == <<sequencer_type, hyperchains, detect_pc, detect_result>>

vars == <<scanVars, detailsVars, assetVars, stVars, detectVars, rerunVars,
          joinVars>>

-----------------------------------------------------------------------------
(* Addresses and event signatures *)

HubAddress == "hub"
ForeignAddress == "foreign"

NewChainSig == "NewChain"
AssetRegisteredSig == "AssetRegistered"
UnknownSig == "Unknown"

\* A 256-bit topic is kept as hi * 2^64 + lo: lo its low 64 bits, hi the rest.
U256(hi, lo) == [hi |-> hi, lo |-> lo]

\* U256::to::<u64>() succeeds only when the value fits 64 bits.
FitsU64(v) == v.hi = 0

ToU64(v) == v.lo

-----------------------------------------------------------------------------
(* Bounds of the modelled chain *)

\* the scan's page size
WINDOW == 10000

\* page sizes the scan is run with (the code's, a smaller and a larger one)
Windows == {WINDOW, 4000, 30000}

\* chain heads
Heads == {0, 1, 10000, 10001, 25000}

\* blocks that may carry a log
LogBlocks == {0, 500, 10000, 12500}

\* most logs in the chain's history
MaxLogs == 2

\* the topics a hub log may carry; a NewChain log always has its indexed
\* chainId as second topic (the event's fixed schema)
HubTopics ==
    { <<NewChainSig, U256(0, 270)>>,
      <<NewChainSig, U256(0, 271)>>,
      <<NewChainSig, U256(1, 270)>>,
      <<AssetRegisteredSig, U256(0, 7)>>,
      <<UnknownSig, U256(0, 272)>>,
      <<>> }

LogUniverse ==
    { [block |-> b, address |-> HubAddress, topics |-> t] :
          b \in LogBlocks, t \in HubTopics }
    \cup
    { [block |-> b, address |-> ForeignAddress,
       topics |-> <<NewChainSig, U256(0, 999)>>] : b \in {500, 12500} }

\* the subsets of S with at most n elements
RECURSIVE SubsetsUpTo(_, _)
SubsetsUpTo(S, n) ==
    IF n = 0 THEN {{}}
    ELSE LET prev == SubsetsUpTo(S, n - 1)
         IN  prev \cup { s \cup {x} : s \in prev, x \in S }

\* the histories a chain whose head is h may have
Histories(h) == SubsetsUpTo({ l \in LogUniverse : l.block <= h }, MaxLogs)

NoFilter == [from_block |-> -1, to_block |-> -1, address |-> "none"]

-----------------------------------------------------------------------------
(* detect_chains_with_newchain_event *)

\* u64::saturating_sub
SaturatingSub(a, b) == IF a >= b THEN a - b ELSE 0

\* a loop that stops once less than a full page is left
LoopCond_FullPagesOnly(cur) == cur > WINDOW

\* the loop condition
LoopCond(cur) == cur > 0

\* the lower limit of the page ending at cur
PrevLimit(cur, w) == SaturatingSub(cur, w)

\* a page that starts at the lower limit itself, so that it shares a block
\* with the page after it
PageFilter_Overlap(cur, w, addr) ==
    [from_block |-> PrevLimit(cur, w), to_block |-> cur, address |-> addr]

\* the filter of the page ending at cur
PageFilter(cur, w, addr) ==
    [from_block |-> PrevLimit(cur, w) + 1, to_block |-> cur, address |-> addr]

\* a get_logs that ignores the filter's address
GetLogs_AnyAddress(logs, f) ==
    { l \in logs : f.from_block <= l.block /\ l.block <= f.to_block }

\* the provider's get_logs
GetLogs(logs, f) ==
    { l \in logs : /\ l.address = f.address
                   /\ f.from_block <= l.block
                   /\ l.block <= f.to_block }

\* log.topic0()
Topic0(l) == IF Len(l.topics) > 0 THEN l.topics[1] ELSE "none"

IsNewChain(l) == Topic0(l) = NewChainSig

\* a page whose processing panics: a NewChain id that does not fit u64
PagePanics(page) == \E l \in page : IsNewChain(l) /\ ~FitsU64(l.topics[2])

\* the ids one page inserts into known_chains
PageChainIds(page) == { ToU64(l.topics[2]) : l \in { x \in page : IsNewChain(x) } }

\* what the provider answered to one request: the request and whether it
\* succeeded
ProviderReply(fn, ok) == [fn |-> fn, ok |-> ok]

ScanInit ==
    /\ head \in Heads
    /\ window \in Windows
    /\ chainLogs \in Histories(head)
    /\ scan_pc = "start"
    /\ current_block = 0
    /\ known_chains = {}
    /\ filter = NoFilter
    /\ queries = <<>>
    /\ replies = <<>>

\* provider.get_block_number().await? succeeds
GetBlockNumberOk ==
    /\ scan_pc = "start"
    /\ current_block' = head
    /\ scan_pc' = "loop"
    /\ replies' = Append(replies, ProviderReply("get_block_number", TRUE))
    /\ UNCHANGED <<head, chainLogs, window, known_chains, filter, queries>>

\* provider.get_block_number().await? fails
GetBlockNumberErr ==
    /\ scan_pc = "start"
    /\ scan_pc' = "err"
    /\ replies' = Append(replies, ProviderReply("get_block_number", FALSE))
    /\ UNCHANGED <<head, chainLogs, window, current_block, known_chains, filter,
                   queries>>

\* the loop is entered: the page's filter is built and get_logs is issued
SendGetLogs ==
    /\ scan_pc = "loop"
    /\ LoopCond(current_block)
    /\ filter' = PageFilter(current_block, window, HubAddress)
    /\ queries' = Append(queries, filter')
    /\ scan_pc' = "await"
    /\ UNCHANGED <<head, chainLogs, window, current_block, known_chains, replies>>

\* get_logs(&filter).await? returns: the page is processed, the cursor moves
RecvLogsOk ==
    /\ scan_pc = "await"
    /\ LET page == GetLogs(chainLogs, filter)
       IN  IF PagePanics(page)
           THEN /\ scan_pc' = "panic"
                /\ UNCHANGED <<current_block, known_chains>>
           ELSE /\ known_chains' = known_chains \cup PageChainIds(page)
                /\ current_block' = PrevLimit(current_block, window)
                /\ scan_pc' = "loop"
    /\ filter' = NoFilter
    /\ replies' = Append(replies, ProviderReply("get_logs", TRUE))
    /\ UNCHANGED <<head, chainLogs, window, queries>>

\* a scan that skips the page whose get_logs failed and goes on
RecvLogsErr_SkipPage ==
    /\ scan_pc = "await"
    /\ scan_pc' = "loop"
    /\ current_block' = PrevLimit(current_block, window)
    /\ filter' = NoFilter
    /\ replies' = Append(replies, ProviderReply("get_logs", FALSE))
    /\ UNCHANGED <<head, chainLogs, window, known_chains, queries>>

\* get_logs(&filter).await? fails
RecvLogsErr ==
    /\ scan_pc = "await"
    /\ scan_pc' = "err"
    /\ filter' = NoFilter
    /\ replies' = Append(replies, ProviderReply("get_logs", FALSE))
    /\ UNCHANGED <<head, chainLogs, window, current_block, known_chains, queries>>

\* the loop ends: Ok(known_chains)
ScanReturn ==
    /\ scan_pc = "loop"
    /\ ~LoopCond(current_block)
    /\ scan_pc' = "done"
    /\ UNCHANGED <<head, chainLogs, window, current_block, known_chains, filter,
                   queries, replies>>

ScanNext ==
    \/ GetBlockNumberOk
    \/ GetBlockNumberErr
    \/ SendGetLogs
    \/ RecvLogsOk
    \/ RecvLogsErr
    \/ ScanReturn

\* the scan is not running
ScanIdle ==
    /\ head = 0
    /\ window = WINDOW
    /\ chainLogs = {}
    /\ scan_pc = "idle"
    /\ current_block = 0
    /\ known_chains = {}
    /\ filter = NoFilter
    /\ queries = <<>>
    /\ replies = <<>>

\* the whole scan as a function of the chain and the page size: the loop of
\* detect_chains_with_newchain_event run from cursor cur with acc collected
RECURSIVE ScanFrom(_, _, _, _)
ScanFrom(cur, acc, logs, w) ==
    IF ~LoopCond(cur)
    THEN [status |-> "done", chains |-> acc]
    ELSE LET page == GetLogs(logs, PageFilter(cur, w, HubAddress))
         IN  IF PagePanics(page)
             THEN [status |-> "panic", chains |-> {}]
             ELSE ScanFrom(PrevLimit(cur, w), acc \cup PageChainIds(page), logs, w)

\* what detect_chains_with_newchain_event has returned: Ok(known_chains) at
\* the end of the loop, the error of a failed call otherwise
NotReturned == [returned |-> FALSE, ok |-> FALSE, chains |-> {}]
ScanResult ==
    CASE scan_pc = "done" -> [returned |-> TRUE, ok |-> TRUE, chains |-> known_chains]
      [] scan_pc = "err" -> [returned |-> TRUE, ok |-> FALSE, chains |-> {}]
      [] OTHER -> NotReturned

\* the (from, to) pairs of the issued queries
QueryRanges == [i \in 1..Len(queries) |-> <<queries[i].from_block, queries[i].to_block>>]

\* the NewChain logs the hub emitted whose id fits a ChainId
HubNewChainLogs ==
    { l \in chainLogs : l.address = HubAddress /\ IsNewChain(l) /\ FitsU64(l.topics[2]) }

-----------------------------------------------------------------------------
(* Claims about the root-chain scan *)

\* C1 (as claimed): when the scan returns, every NewChain(chainId) log the hub
\* emitted at a block b with 0 <= b <= head, block 0 included, has its chainId
\* in the returned set.
C1_CompleteFromBlockZero ==
    (scan_pc = "done" /\ window = WINDOW) =>
        \A l \in HubNewChainLogs :
            (0 <= l.block /\ l.block <= head) => ToU64(l.topics[2]) \in known_chains

\* C6: for a fixed head and log history the returned chain-id set is the same
\* for every positive page size: the set a finished scan returns with its page
\* size is the set the scan computes with any other page size.
C6_WindowIndependence ==
    scan_pc = "done" =>
        \A w2 \in Windows :
            ScanFrom(head, {}, chainLogs, w2) = [status |-> "done", chains |-> known_chains]

\* C6's case: a scan with a page size other than the code's finished after
\* several pages and found both chains.
C6_Witness ==
    /\ scan_pc = "done"
    /\ window # WINDOW
    /\ Len(queries) > 1
    /\ known_chains = {270, 271}

\* the scenario of C7: head 25,000, NewChain(270) at 12,500, NewChain(271) at 500
C7_Scenario ==
    /\ head = 25000
    /\ window = WINDOW
    /\ chainLogs = { [block |-> 12500, address |-> HubAddress,
                      topics |-> <<NewChainSig, U256(0, 270)>>],
                     [block |-> 500, address |-> HubAddress,
                      topics |-> <<NewChainSig, U256(0, 271)>>] }

\* C7 (as claimed): the pages descend from [head-W+1, head] in steps of W and
\* the final page has lower bound 0; in the scenario the pages are exactly
\* [15001,25000], [5001,15000], [1,5000], [0,0] and the result is {270, 271}.
C7_WindowSequence ==
    (scan_pc = "done" /\ C7_Scenario) =>
        /\ Len(queries) > 0
        /\ queries[1].to_block = head
        /\ \A i \in 2..Len(queries) :
               queries[i].to_block = queries[i - 1].from_block - 1
        /\ queries[Len(queries)].from_block = 0
        /\ QueryRanges = << <<15001, 25000>>, <<5001, 15000>>,
                            <<1, 5000>>, <<0, 0>> >>
        /\ known_chains = {270, 271}

\* C8 (as claimed): when get_block_number returns 0 the scan issues exactly
\* one log query, whose window contains block 0, before it terminates.
C8_HeadZeroOneQuery ==
    (scan_pc = "done" /\ head = 0 /\ window = WINDOW) =>
        /\ Len(queries) = 1
        /\ queries[1].from_block <= 0
        /\ 0 <= queries[1].to_block

\* the reply to the i-th log query has arrived and was a success (the reply
\* to get_block_number comes first)
PageAnswered(i) == Len(replies) >= i + 1 /\ replies[i + 1].ok

\* C13: every id in known_chains, at any time, is the 64-bit value of the
\* second topic of a log that the hub itself emitted with topic0 = NewChain
\* and that one of the scan's answered log queries covers; logs of other
\* contracts, AssetRegistered logs and logs with another topic0 give none.
C13_NoInventedIds ==
    \A id \in known_chains :
        \E l \in chainLogs :
            /\ l.address = HubAddress
            /\ Len(l.topics) >= 2
            /\ l.topics[1] = NewChainSig
            /\ l.topics[2] = U256(0, id)
            /\ \E i \in 1..Len(queries) :
                   /\ PageAnswered(i)
                   /\ queries[i].address = HubAddress
                   /\ queries[i].from_block <= l.block
                   /\ l.block <= queries[i].to_block

\* C13's case: a finished scan that found an id while the queried range also
\* held a foreign NewChain log and a hub log that is not a NewChain
C13_Witness ==
    /\ scan_pc = "done"
    /\ known_chains # {}
    /\ \E l \in chainLogs :
           /\ l.block >= 1
           /\ \/ l.address = ForeignAddress
              \/ l.address = HubAddress /\ Topic0(l) # NewChainSig

\* C17: a failed get_block_number or get_logs is the last thing the scan
\* does: no query is issued after it, none is retried, and what the scan
\* returns is the error, never a set, whatever earlier pages had yielded.
C17_ScanFailureFatal ==
    \A i \in 1..Len(replies) :
        ~replies[i].ok =>
            /\ i = Len(replies)
            /\ Len(queries) = i - 1
            /\ filter = NoFilter
            /\ scan_pc = "err"
            /\ ScanResult.returned /\ ~ScanResult.ok /\ ScanResult.chains = {}

\* C17's case: a later page fails after an earlier page had yielded an id
C17_Witness ==
    /\ scan_pc = "err"
    /\ Len(queries) >= 2
    /\ known_chains # {}
    /\ replies[Len(replies)] = ProviderReply("get_logs", FALSE)

\* C18 (as claimed): for every NewChain log of an answered page whose second
\* topic is v, the scan goes on and known_chains holds v itself when
\* v < 2^64 and v mod 2^64 when v >= 2^64.
C18_NarrowingTruncates ==
    \A i \in 1..Len(queries) :
        PageAnswered(i) =>
            \A l \in chainLogs :
                (/\ l.address = HubAddress
                 /\ queries[i].from_block <= l.block
                 /\ l.block <= queries[i].to_block
                 /\ Len(l.topics) >= 2
                 /\ l.topics[1] = NewChainSig)
                => /\ scan_pc # "panic"
                   /\ l.topics[2].lo \in known_chains

\* C20: at most one log query is outstanding; a query is issued for the page
\* ending at the cursor, after the pages before it were processed; every
\* page has from <= to; and each page ends one block below the start of the
\* page before it.
C20_SequentialDisjointPages ==
    /\ Len(replies) = 0 => Len(queries) = 0
    /\ Len(replies) > 0 =>
           Len(queries) - (Len(replies) - 1) = (IF scan_pc = "await" THEN 1 ELSE 0)
    /\ scan_pc = "await" =>
           /\ filter = queries[Len(queries)]
           /\ filter.to_block = current_block
    /\ \A i \in 1..Len(queries) :
           /\ queries[i].from_block <= queries[i].to_block
           /\ i > 1 => /\ queries[i].to_block = queries[i - 1].from_block - 1
                        /\ PageAnswered(i - 1)
                        /\ { l.topics[2].lo :
                               l \in { x \in chainLogs :
                                   /\ x.address = HubAddress
                                   /\ queries[i - 1].from_block <= x.block
                                   /\ x.block <= queries[i - 1].to_block
                                   /\ Len(x.topics) >= 2
                                   /\ x.topics[1] = NewChainSig } }
                           \subseteq known_chains

\* C20's case: a finished scan of three pages or more, the second of which
\* held a NewChain log
C20_Witness ==
    /\ scan_pc = "done"
    /\ Len(queries) >= 3
    /\ \E l \in HubNewChainLogs :
           queries[2].from_block <= l.block /\ l.block <= queries[2].to_block

\* ceil(a / b)
CeilDiv(a, b) == (a + b - 1) \div b

\* C21 (as claimed): as long as every request to the provider is answered,
\* the cursor goes strictly down from one iteration to the next and never
\* below 0, the scan is never stuck short of its done state, and done is
\* reached after exactly ceil(head / 10000) log queries.
C21_ScanTerminates ==
    (window = WINDOW /\ scan_pc # "idle" /\ \A i \in 1..Len(replies) : replies[i].ok) =>
        /\ current_block >= 0
        /\ \A i \in 1..Len(queries) :
               /\ queries[i].to_block > 0
               /\ i > 1 => queries[i].to_block < queries[i - 1].to_block
               /\ PageAnswered(i) => current_block < queries[i].to_block
        /\ Len(queries) <= CeilDiv(head, WINDOW)
        /\ scan_pc = "done" \/ ENABLED ScanNext
        /\ scan_pc = "done" => Len(queries) = CeilDiv(head, WINDOW)

-----------------------------------------------------------------------------
(* The hub's contracts as get_chain_details queries them *)

ZeroAddress == "0x0000000000000000000000000000000000000000"

SharedBridgeAddress == "sharedBridge"

\* the chain ids a Bridgehub may know
ChainIds == {270, 271}

\* Option<HashSet<u64>>: None, Some(set)
NoChains == [some |-> FALSE, set |-> {}]

SomeChains(set) == [some |-> TRUE, set |-> set]

\* getHyperchain(c) and stmAssetIdFromChainId(c) as the hub holds them
HyperchainOf(c) == CASE c = 270 -> "st270" [] c = 271 -> "st271" [] OTHER -> "st"

StmAssetIdOf(c) == CASE c = 270 -> "asset270" [] c = 271 -> "asset271" [] OTHER -> "asset"

\* the six queries of get_chain_details, in the order of the code
QueryOrder == << "stateTransitionManager", "baseToken", "getHyperchain",
                "sharedBridge", "validatorTimelock", "stmAssetIdFromChainId" >>

QueryNames == { QueryOrder[i] : i \in 1..Len(QueryOrder) }

\* the queries that may fail together while one chain is resolved
FailureSets ==
    {{}} \cup { {q} : q \in QueryNames } \cup { {"baseToken", q} : q \in QueryNames }

\* what the contracts may hold for chain c
ChainStates(c) ==
    { [stm |-> s, base_token |-> b, hyperchain |-> HyperchainOf(c),
       asset_id |-> StmAssetIdOf(c), failing |-> f] :
          s \in {"stm1", "stm2"}, b \in {ZeroAddress, "token"}, f \in FailureSets }

\* validatorTimelock() of the transition manager at address stm
ValidatorTimelockOf(stm) ==
    CASE stm = "stm1" -> "timelock1" [] stm = "stm2" -> "timelock2" [] OTHER -> "timelock"

\* the value the contract at target returns for query q about chain c
Reply(c, q, target) ==
    CASE q = "stateTransitionManager" -> onchain[c].stm
      [] q = "baseToken" -> onchain[c].base_token
      [] q = "getHyperchain" -> onchain[c].hyperchain
      [] q = "sharedBridge" -> SharedBridgeAddress
      [] q = "validatorTimelock" -> ValidatorTimelockOf(target)
      [] q = "stmAssetIdFromChainId" -> onchain[c].asset_id

\* .call().await: Ok(value) or Err
CallOutcome(c, q, target) ==
    IF q \in onchain[c].failing
    THEN [ok |-> FALSE, value |-> "error"]
    ELSE [ok |-> TRUE, value |-> Reply(c, q, target)]

\* a baseToken failure is replaced by the zero address in the first invocation
\* only
Lookup_TolerateFirstRunOnly(c, q, target) ==
    LET o == CallOutcome(c, q, target)
    IN  IF q = "baseToken" /\ ~o.ok /\ run = 1
        THEN [ok |-> TRUE, value |-> ZeroAddress]
        ELSE o

\* every query propagates its failure
Lookup_TolerateNone(c, q, target) == CallOutcome(c, q, target)

\* every query falls back to the zero address
Lookup_TolerateAll(c, q, target) ==
    LET o == CallOutcome(c, q, target)
    IN  IF o.ok THEN o ELSE [ok |-> TRUE, value |-> ZeroAddress]

\* what get_chain_details makes of a query: `.await?` for all but baseToken,
\* whose Err is matched and replaced by Address::ZERO
Lookup(c, q, target) ==
    LET o == CallOutcome(c, q, target)
    IN  IF q = "baseToken" /\ ~o.ok
        THEN [ok |-> TRUE, value |-> ZeroAddress]
        ELSE o

Unset == "unset"

NoLocals ==
    [stm_address |-> Unset, base_token_address |-> Unset, st_address |-> Unset,
     shared_bridge_address |-> Unset, validator_timelock_address |-> Unset,
     stm_asset_id |-> Unset]

NoResult == [status |-> "none"]
ErrResult == [status |-> "err"]
OkResult(d) == [status |-> "ok", details |-> d]

CallRecord(c, q, target) == [chain |-> c, fn |-> q, target |-> target]

\* where print_detailed_info goes when get_chain_details(chain_id).await? fails
\* in a loop that skips the failed chain
AfterDetailsErr_Isolate == "iter"

\* where print_detailed_info goes when get_chain_details(chain_id).await? fails
AfterDetailsErr == "err"

DetailsInit ==
    /\ onchain \in [ChainIds -> UNION { ChainStates(c) : c \in ChainIds }]
    /\ \A c \in ChainIds : onchain[c] \in ChainStates(c)
    /\ self_known_chains \in {NoChains} \cup { SomeChains(k) : k \in SUBSET ChainIds }
    /\ pdi_pc = "start"
    /\ chains = {}
    /\ chain_id = 0
    /\ loc = NoLocals
    /\ calls = <<>>
    /\ results = [c \in ChainIds |-> NoResult]
    /\ stdout = <<>>

\* print_detailed_info up to the for loop
PrintStart ==
    /\ pdi_pc = "start"
    /\ IF ~self_known_chains.some
       THEN /\ pdi_pc' = "err"
            /\ UNCHANGED <<chains, stdout>>
       ELSE /\ chains' = self_known_chains.set
            /\ stdout' = Append(stdout, [kind |-> "Bridgehub", address |-> HubAddress])
            /\ pdi_pc' = "iter"
    /\ UNCHANGED <<onchain, self_known_chains, chain_id, loc, calls, results>>

\* the for loop takes the next chain (a HashSet iterates in any order), prints
\* its header and enters get_chain_details
NextChain ==
    /\ pdi_pc = "iter"
    /\ \E c \in chains :
          /\ chain_id' = c
          /\ chains' = chains \ {c}
          /\ stdout' = Append(stdout, [kind |-> "Chain", chain |-> c])
    /\ loc' = NoLocals
    /\ pdi_pc' = "q_stm"
    /\ UNCHANGED <<onchain, self_known_chains, calls, results>>

\* one query of get_chain_details: issued at position at, to the contract at
\* target, stored in local fld; on Err get_chain_details returns Err and the
\* `?` of print_detailed_info ends the report
QueryStep(at, q, target, fld, next) ==
    /\ pdi_pc = at
    /\ calls' = Append(calls, CallRecord(chain_id, q, target))
    /\ LET r == Lookup(chain_id, q, target)
       IN  IF r.ok
           THEN /\ loc' = [loc EXCEPT ![fld] = r.value]
                /\ pdi_pc' = next
                /\ UNCHANGED results
           ELSE /\ results' = [results EXCEPT ![chain_id] = ErrResult]
                /\ pdi_pc' = AfterDetailsErr
                /\ UNCHANGED loc
    /\ UNCHANGED <<onchain, self_known_chains, chains, chain_id, stdout>>

QueryStm ==
    QueryStep("q_stm", "stateTransitionManager", HubAddress, "stm_address", "q_base")

QueryBaseToken ==
    QueryStep("q_base", "baseToken", HubAddress, "base_token_address", "q_st")

QueryHyperchain ==
    QueryStep("q_st", "getHyperchain", HubAddress, "st_address", "q_sb")

QuerySharedBridge ==
    QueryStep("q_sb", "sharedBridge", HubAddress, "shared_bridge_address", "q_vt")

\* validatorTimelock() asked of the hub instead of the transition manager
QueryValidatorTimelock_AtHub ==
    QueryStep("q_vt", "validatorTimelock", HubAddress,
              "validator_timelock_address", "q_asset")

\* StateTransitionManager::new(stm_address, ..).validatorTimelock()
QueryValidatorTimelock ==
    QueryStep("q_vt", "validatorTimelock", loc.stm_address,
              "validator_timelock_address", "q_asset")

\* the last query; on Ok the details are built, returned and printed
QueryStmAssetId ==
    /\ pdi_pc = "q_asset"
    /\ calls' = Append(calls, CallRecord(chain_id, "stmAssetIdFromChainId", HubAddress))
    /\ LET r == Lookup(chain_id, "stmAssetIdFromChainId", HubAddress)
           d == [loc EXCEPT !.stm_asset_id = r.value]
       IN  IF r.ok
           THEN /\ loc' = d
                /\ results' = [results EXCEPT ![chain_id] = OkResult(d)]
                /\ stdout' = Append(stdout, [kind |-> "Details", chain |-> chain_id,
                                             details |-> d])
                /\ pdi_pc' = "iter"
           ELSE /\ results' = [results EXCEPT ![chain_id] = ErrResult]
                /\ pdi_pc' = AfterDetailsErr
                /\ UNCHANGED <<loc, stdout>>
    /\ UNCHANGED <<onchain, self_known_chains, chains, chain_id>>

\* the for loop is over: Ok(())
PrintDone ==
    /\ pdi_pc = "iter"
    /\ chains = {}
    /\ pdi_pc' = "done"
    /\ UNCHANGED <<onchain, self_known_chains, chains, chain_id, loc, calls,
                   results, stdout>>

DetailsNext ==
    \/ PrintStart
    \/ NextChain
    \/ QueryStm
    \/ QueryBaseToken
    \/ QueryHyperchain
    \/ QuerySharedBridge
    \/ QueryValidatorTimelock
    \/ QueryStmAssetId
    \/ PrintDone

\* most invocations of print_detailed_info on one Bridgehub
MaxRuns == 2

RerunInit ==
    /\ run = 1
    /\ prev_results = [c \in ChainIds |-> NoResult]

\* print_detailed_info has returned and is called again on the same Bridgehub,
\* against the same contracts: nothing of the earlier invocation is kept but
\* what the caller saw it return
PrintAgain ==
    /\ pdi_pc \in {"done", "err"}
    /\ run < MaxRuns
    /\ run' = run + 1
    /\ prev_results' = results
    /\ pdi_pc' = "start"
    /\ chains' = {}
    /\ chain_id' = 0
    /\ loc' = NoLocals
    /\ calls' = <<>>
    /\ results' = [c \in ChainIds |-> NoResult]
    /\ stdout' = <<>>
    /\ UNCHANGED <<onchain, self_known_chains>>

RerunIdle ==
    /\ run = 0
    /\ prev_results = <<>>

\* print_detailed_info is not running
DetailsIdle ==
    /\ onchain = <<>>
    /\ self_known_chains = NoChains
    /\ pdi_pc = "idle"
    /\ chains = {}
    /\ chain_id = 0
    /\ loc = <<>>
    /\ calls = <<>>
    /\ results = <<>>
    /\ stdout = <<>>

\* the details the contracts hold for chain c, with base standing for baseToken
ExpectedDetails(c, base) ==
    [stm_address |-> onchain[c].stm,
     base_token_address |-> base,
     st_address |-> onchain[c].hyperchain,
     shared_bridge_address |-> SharedBridgeAddress,
     validator_timelock_address |-> ValidatorTimelockOf(onchain[c].stm),
     stm_asset_id |-> onchain[c].asset_id]

\* the chains whose details have been printed
PrintedDetails == { i \in 1..Len(stdout) : stdout[i].kind = "Details" }

-----------------------------------------------------------------------------
(* Claims about get_chain_details and print_detailed_info *)

\* C2: when baseToken(chainId) fails and the other five queries succeed,
\* get_chain_details returns Ok with base_token_address the zero address and
\* every other field the value the chain reported.
C2_BaseTokenFallback ==
    \A c \in DOMAIN results :
        (results[c].status # "none" /\ onchain[c].failing = {"baseToken"}) =>
            results[c] = OkResult(ExpectedDetails(c, ZeroAddress))

\* C2's case: a chain that holds a non-zero base token, whose baseToken query
\* alone failed, has been resolved.
C2_Witness ==
    \E c \in DOMAIN results :
        /\ results[c].status = "ok"
        /\ onchain[c].failing = {"baseToken"}
        /\ onchain[c].base_token # ZeroAddress

\* C3: a failure of any query other than baseToken makes get_chain_details
\* return Err: no details are produced for the chain and the failed query is
\* the last one issued.
C3_OtherFailuresFatal ==
    \A i \in 1..Len(calls) :
        (calls[i].fn # "baseToken" /\ calls[i].fn \in onchain[calls[i].chain].failing) =>
            /\ results[calls[i].chain] = ErrResult
            /\ i = Len(calls)
            /\ \A j \in PrintedDetails : stdout[j].chain # calls[i].chain

\* C3's case: getHyperchain failed after the baseToken failure had been
\* tolerated, and the resolution returned Err.
C3_Witness ==
    \E i \in 1..Len(calls) :
        /\ calls[i].fn = "getHyperchain"
        /\ onchain[calls[i].chain].failing = {"baseToken", "getHyperchain"}
        /\ results[calls[i].chain] = ErrResult

\* C10 (as claimed): when get_chain_details has failed for a chain, the report
\* ended with an error and no chain's details have been printed in the run.
C10_NoPartialReport ==
    (\E c \in DOMAIN results : results[c] = ErrResult) =>
        /\ pdi_pc = "err"
        /\ PrintedDetails = {}

\* C10 (amended): when get_chain_details has failed for a chain, the report
\* ended with an error and the last thing printed is that chain's header:
\* neither its details nor anything of a later chain is printed, and every
\* details block printed is that of a chain resolved before the failure.
C10_NoReportPastFailure ==
    \A c \in DOMAIN results :
        results[c] = ErrResult =>
            /\ pdi_pc = "err"
            /\ stdout[Len(stdout)] = [kind |-> "Chain", chain |-> c]
            /\ \A j \in PrintedDetails :
                   /\ stdout[j].chain # c
                   /\ results[stdout[j].chain] = OkResult(stdout[j].details)

\* C10's case: a chain failed after another chain's details had been printed.
C10_Witness ==
    /\ \E c \in DOMAIN results : results[c] = ErrResult
    /\ PrintedDetails # {}

\* the calls issued for chain c, in order
CallsAbout(c) ==
    LET About(r) == r.chain = c
    IN  SelectSeq(calls, About)

\* C16: the queries get_chain_details issues for one chain are, in this
\* order, stateTransitionManager, baseToken, getHyperchain, sharedBridge,
\* validatorTimelock, stmAssetIdFromChainId (or a prefix of it when a query
\* failed); validatorTimelock goes to the address that stateTransitionManager
\* returned for that chain, every other query to the hub.
C16_QueryOrderAndTargets ==
    \A c \in ChainIds :
        LET cs == CallsAbout(c)
            order == <<"stateTransitionManager", "baseToken", "getHyperchain",
                       "sharedBridge", "validatorTimelock", "stmAssetIdFromChainId">>
        IN  /\ Len(cs) <= 6
            /\ \A i \in 1..Len(cs) :
                   /\ cs[i].fn = order[i]
                   /\ cs[i].target =
                          (IF i = 5 THEN onchain[c].stm ELSE HubAddress)
                   /\ i = 5 => "stateTransitionManager" \notin onchain[c].failing

\* C16's case: two chains with different transition managers were resolved
C16_Witness ==
    /\ pdi_pc = "done"
    /\ Len(calls) = 12
    /\ onchain[270].stm # onchain[271].stm
    /\ \A c \in ChainIds : results[c].status = "ok"

-----------------------------------------------------------------------------
(* StateTransition::new *)

\* most batches a counter of the transition contract holds
MaxBatches == 2

\* the getters of IHyperchain
StGetters ==
    { "getVerifier", "getAdmin", "getTotalBatchesCommitted", "getTotalBatchesVerified",
      "getTotalBatchesExecuted", "getSemverProtocolVersion",
      "getL2BootloaderBytecodeHash", "getL2DefaultAccountBytecodeHash",
      "getL2SystemContractsUpgradeTxHash", "getChainId", "getSettlementLayer" }

\* the transition contracts: the three counters vary, a getter may revert
StContracts ==
    { [committed |-> c, verified |-> v, executed |-> e, failing |-> f] :
          c \in 0..MaxBatches, v \in 0..MaxBatches, e \in 0..MaxBatches,
          f \in {{}} \cup { {g} : g \in StGetters } }

\* what getter g of the contract returns
StGetter(contract, g) ==
    CASE g = "getVerifier" -> <<"address", "verifier">>
      [] g = "getAdmin" -> <<"address", "admin">>
      [] g = "getTotalBatchesCommitted" -> <<"uint256", contract.committed>>
      [] g = "getTotalBatchesVerified" -> <<"uint256", contract.verified>>
      [] g = "getTotalBatchesExecuted" -> <<"uint256", contract.executed>>
      [] g = "getSemverProtocolVersion" -> <<"semver", 0>>
      [] g = "getL2BootloaderBytecodeHash" -> <<"bytes32", "bootloader">>
      [] g = "getL2DefaultAccountBytecodeHash" -> <<"bytes32", "defaultAccount">>
      [] g = "getL2SystemContractsUpgradeTxHash" -> <<"bytes32", "upgradeTx">>
      [] g = "getChainId" -> <<"uint256", 270>>
      [] g = "getSettlementLayer" -> <<"address", "settlementLayer">>

\* the calls of StateTransition::new in the order of the code: the getter
\* called and the local it is bound to
StCallOrder ==
    << [getter |-> "getVerifier", local |-> "verifier"],
       [getter |-> "getTotalBatchesCommitted", local |-> "total_batches_committed"],
       [getter |-> "getTotalBatchesCommitted", local |-> "total_batches_verified"],
       [getter |-> "getTotalBatchesCommitted", local |-> "total_batches_executed"],
       [getter |-> "getSemverProtocolVersion", local |-> "protocol_version"],
       [getter |-> "getAdmin", local |-> "admin"],
       [getter |-> "getL2BootloaderBytecodeHash", local |-> "bootloader_hash"],
       [getter |-> "getL2DefaultAccountBytecodeHash", local |-> "default_account_hash"],
       [getter |-> "getL2SystemContractsUpgradeTxHash", local |-> "system_upgrade_tx_hash"],
       [getter |-> "getChainId", local |-> "chain_id"],
       [getter |-> "getSettlementLayer", local |-> "settlement_layer"] >>

\* the fields of StateTransition
StFields == { StCallOrder[i].local : i \in 1..Len(StCallOrder) }

\* the getter IHyperchain declares for each field of StateTransition
StOwnGetter(fld) ==
    CASE fld = "verifier" -> "getVerifier"
      [] fld = "total_batches_committed" -> "getTotalBatchesCommitted"
      [] fld = "total_batches_verified" -> "getTotalBatchesVerified"
      [] fld = "total_batches_executed" -> "getTotalBatchesExecuted"
      [] fld = "protocol_version" -> "getSemverProtocolVersion"
      [] fld = "admin" -> "getAdmin"
      [] fld = "bootloader_hash" -> "getL2BootloaderBytecodeHash"
      [] fld = "default_account_hash" -> "getL2DefaultAccountBytecodeHash"
      [] fld = "system_upgrade_tx_hash" -> "getL2SystemContractsUpgradeTxHash"
      [] fld = "chain_id" -> "getChainId"
      [] fld = "settlement_layer" -> "getSettlementLayer"

StUnset == <<"unset", 0>>

StNoLocals == [f \in StFields |-> StUnset]

StInit ==
    /\ st_contract \in StContracts
    /\ st_pc = "calling"
    /\ st_next = 1
    /\ st_loc = StNoLocals
    /\ st_calls = <<>>
    /\ st_result = StNoLocals

\* contract.<getter>().call().await? returns Ok: the local is bound
StCallOk ==
    /\ st_pc = "calling"
    /\ st_next <= Len(StCallOrder)
    /\ LET c == StCallOrder[st_next]
       IN  /\ c.getter \notin st_contract.failing
           /\ st_calls' = Append(st_calls, c.getter)
           /\ st_loc' = [st_loc EXCEPT ![c.local] = StGetter(st_contract, c.getter)]
    /\ st_next' = st_next + 1
    /\ UNCHANGED <<st_contract, st_pc, st_result>>

\* contract.<getter>().call().await? returns Err: new returns it
StCallErr ==
    /\ st_pc = "calling"
    /\ st_next <= Len(StCallOrder)
    /\ LET c == StCallOrder[st_next]
       IN  /\ c.getter \in st_contract.failing
           /\ st_calls' = Append(st_calls, c.getter)
    /\ st_pc' = "err"
    /\ UNCHANGED <<st_contract, st_next, st_loc, st_result>>

\* Ok(StateTransition { .. }) built from the locals
StReturn ==
    /\ st_pc = "calling"
    /\ st_next > Len(StCallOrder)
    /\ st_result' = st_loc
    /\ st_pc' = "done"
    /\ UNCHANGED <<st_contract, st_next, st_loc, st_calls>>

StNext ==
    \/ StCallOk
    \/ StCallErr
    \/ StReturn

\* StateTransition::new is not running
StIdle ==
    /\ st_contract = <<>>
    /\ st_pc = "idle"
    /\ st_next = 1
    /\ st_loc = <<>>
    /\ st_calls = <<>>
    /\ st_result = <<>>

-----------------------------------------------------------------------------
(* Claims about StateTransition::new *)

\* C9 (as claimed): against an unchanged contract the returned snapshot holds,
\* in every field, the value of that field's own getter; in particular
\* total_batches_verified = getTotalBatchesVerified() and
\* total_batches_executed = getTotalBatchesExecuted().
C9_SnapshotFidelity ==
    st_pc = "done" =>
        \A f \in StFields : st_result[f] = StGetter(st_contract, StOwnGetter(f))

-----------------------------------------------------------------------------
(* L1AssetRouter::new and RegisteredAsset::new *)

VaultAddress == "vault"

\* address!("0000000000000000000000000000000000000001")
NativeSentinel == "0x0000000000000000000000000000000000000001"

\* most AssetHandlerRegisteredInitial logs the router has emitted
MaxEvents == 2

AssetIds == {"asset1", "asset2"}

\* the deployment trackers a log may name
Trackers == {VaultAddress, HubAddress, "tracker"}

\* a log as RegisteredAsset::new receives it: topic 1 and topic 2
RouterEvent(a, t) == [asset_id |-> a, tracker |-> t]

\* the sequences over S of length at most n
RECURSIVE SeqsUpTo(_, _)
SeqsUpTo(S, n) ==
    IF n = 0 THEN {<<>>}
    ELSE LET prev == SeqsUpTo(S, n - 1)
         IN  prev \cup { Append(q, x) : q \in prev, x \in S }

\* the token addresses the vault may hold for an asset
TokenAddresses == {NativeSentinel, "dai", "usdc"}

\* ERC20::name() of the token at addr
TokenNameOf(addr) ==
    CASE addr = "dai" -> "Dai Stablecoin" [] addr = "usdc" -> "USD Coin" [] OTHER -> "Token"

\* get_all_events(sequencer, address, SIGNATURE_HASH): the router's logs with
\* that signature, in scan order
GetAllEvents == router_events

\* the native-currency test with the zero address taken for the sentinel
IsNativeSentinel_Zero(addr) == addr = ZeroAddress

\* token_address == address!("00..01")
IsNativeSentinel(addr) == addr = NativeSentinel

\* a match whose Bridgehub arm comes first
Classify_HubFirst(tracker, vault, hub) ==
    IF tracker = hub THEN "Bridgehub"
    ELSE IF tracker = vault THEN "NativeTokenVault"
    ELSE "Other"

\* the match of RegisteredAsset::new: the first arm whose guard holds
Classify(tracker, vault, hub) ==
    IF tracker = vault THEN "NativeTokenVault"
    ELSE IF tracker = hub THEN "Bridgehub"
    ELSE "Other"

BridgehubHandler == [kind |-> "Bridgehub"]

OtherHandler(addr) == [kind |-> "Other", address |-> addr]

VaultHandler(addr, name) ==
    [kind |-> "NativeTokenVault", address |-> addr, token_name |-> name]

NoHandler == [kind |-> "none"]

\* the future RegisteredAsset::new(sequencer, asset_id, tracker, ..) before
\* its first poll
NewTask(ev) ==
    [asset_id |-> ev.asset_id, tracker |-> ev.tracker, pc |-> "start",
     token_address |-> Unset, handler |-> NoHandler, calls |-> <<>>]

\* the key of the log's asset id under a map keyed by the tracker
EntryKey_Tracker(elem) == elem.tracker

\* the key of `(elem.asset_id, elem)`
EntryKey(elem) == elem.asset_id

\* the value stored for a finished future: RegisteredAsset
EntryValue(elem) == [asset_id |-> elem.asset_id, handler |-> elem.handler]

\* an insert that keeps the entry a key already has
MapInsert_KeepFirst(m, k, v) ==
    IF k \in DOMAIN m THEN m
    ELSE [x \in (DOMAIN m) \cup {k} |-> IF x = k THEN v ELSE m[x]]

\* HashMap::insert
MapInsert(m, k, v) == [x \in (DOMAIN m) \cup {k} |-> IF x = k THEN v ELSE m[x]]

\* HashMap::from_iter over the joined results, in their order
RECURSIVE FromIter(_, _)
FromIter(elems, acc) ==
    IF elems = <<>> THEN acc
    ELSE FromIter(Tail(elems),
                  MapInsert(acc, EntryKey(Head(elems)), EntryValue(Head(elems))))

AssetsInit ==
    /\ router_cfg \in { [vault |-> VaultAddress, hub |-> h] : h \in {HubAddress, VaultAddress} }
    /\ router_events \in SeqsUpTo({ RouterEvent(a, t) : a \in AssetIds, t \in Trackers },
                                   MaxEvents)
    /\ vault_tokens \in [AssetIds -> TokenAddresses]
    /\ ar_pc = "q_vault"
    /\ native_token_vault = Unset
    /\ bridgehub = Unset
    /\ tasks = <<>>
    /\ registered_assets = <<>>

\* contract.nativeTokenVault().call().await.unwrap() returns
NativeTokenVaultOk ==
    /\ ar_pc = "q_vault"
    /\ native_token_vault' = router_cfg.vault
    /\ ar_pc' = "q_hub"
    /\ UNCHANGED <<router_cfg, router_events, vault_tokens, bridgehub, tasks,
                   registered_assets>>

\* contract.nativeTokenVault().call().await.unwrap() panics
NativeTokenVaultErr ==
    /\ ar_pc = "q_vault"
    /\ ar_pc' = "panic"
    /\ UNCHANGED <<router_cfg, router_events, vault_tokens, native_token_vault,
                   bridgehub, tasks, registered_assets>>

\* contract.BRIDGE_HUB().call().await.unwrap() returns
BridgeHubOk ==
    /\ ar_pc = "q_hub"
    /\ bridgehub' = router_cfg.hub
    /\ ar_pc' = "q_events"
    /\ UNCHANGED <<router_cfg, router_events, vault_tokens, native_token_vault,
                   tasks, registered_assets>>

\* contract.BRIDGE_HUB().call().await.unwrap() panics
BridgeHubErr ==
    /\ ar_pc = "q_hub"
    /\ ar_pc' = "panic"
    /\ UNCHANGED <<router_cfg, router_events, vault_tokens, native_token_vault,
                   bridgehub, tasks, registered_assets>>

\* get_all_events(..).await.unwrap() returns: one future per log is built
\* and the futures are handed to join_all
GetAllEventsOk ==
    /\ ar_pc = "q_events"
    /\ tasks' = [i \in 1..Len(GetAllEvents) |-> NewTask(GetAllEvents[i])]
    /\ ar_pc' = "joining"
    /\ UNCHANGED <<router_cfg, router_events, vault_tokens, native_token_vault,
                   bridgehub, registered_assets>>

\* get_all_events(..).await.unwrap() panics
GetAllEventsErr ==
    /\ ar_pc = "q_events"
    /\ ar_pc' = "panic"
    /\ UNCHANGED <<router_cfg, router_events, vault_tokens, native_token_vault,
                   bridgehub, tasks, registered_assets>>

AssetCall(fn, target, arg) == [fn |-> fn, target |-> target, arg |-> arg]

\* the first poll of future i: the match on deployment_tracker; the vault arm
\* issues tokenAddress(asset_id), the other arms finish at once
TaskPoll(i) ==
    /\ ar_pc = "joining"
    /\ tasks[i].pc = "start"
    /\ LET t == tasks[i]
           k == Classify(t.tracker, native_token_vault, bridgehub)
       IN  tasks' = [tasks EXCEPT ![i] =
               CASE k = "NativeTokenVault" ->
                      [t EXCEPT !.pc = "await_token",
                                !.calls = Append(t.calls,
                                    AssetCall("tokenAddress", native_token_vault, t.asset_id))]
                 [] k = "Bridgehub" ->
                      [t EXCEPT !.pc = "done", !.handler = BridgehubHandler]
                 [] k = "Other" ->
                      [t EXCEPT !.pc = "done", !.handler = OtherHandler(t.tracker)]]
    /\ UNCHANGED <<router_cfg, router_events, vault_tokens, ar_pc, native_token_vault,
                   bridgehub, registered_assets>>

\* tokenAddress(asset_id) returns to future i: "ETH" for the sentinel, else
\* name() is issued on the token
TaskTokenAddressOk(i) ==
    /\ ar_pc = "joining"
    /\ tasks[i].pc = "await_token"
    /\ LET t == tasks[i]
           token_address == vault_tokens[t.asset_id]
       IN  tasks' = [tasks EXCEPT ![i] =
               IF IsNativeSentinel(token_address)
               THEN [t EXCEPT !.pc = "done",
                              !.token_address = token_address,
                              !.handler = VaultHandler(token_address, "ETH")]
               ELSE [t EXCEPT !.pc = "await_name",
                              !.token_address = token_address,
                              !.calls = Append(t.calls,
                                  AssetCall("name", token_address, "none"))]]
    /\ UNCHANGED <<router_cfg, router_events, vault_tokens, ar_pc, native_token_vault,
                   bridgehub, registered_assets>>

\* name() returns to future i
TaskNameOk(i) ==
    /\ ar_pc = "joining"
    /\ tasks[i].pc = "await_name"
    /\ LET t == tasks[i]
       IN  tasks' = [tasks EXCEPT ![i] =
               [t EXCEPT !.pc = "done",
                         !.handler = VaultHandler(t.token_address,
                                                  TokenNameOf(t.token_address))]]
    /\ UNCHANGED <<router_cfg, router_events, vault_tokens, ar_pc, native_token_vault,
                   bridgehub, registered_assets>>

\* a failed tokenAddress or name() replaced by a default handler
\* (unwrap_or_default instead of unwrap)
TaskCallErr_Default(i) ==
    /\ ar_pc = "joining"
    /\ tasks[i].pc \in {"await_token", "await_name"}
    /\ tasks' = [tasks EXCEPT ![i] =
           [tasks[i] EXCEPT !.pc = "done", !.handler = VaultHandler(ZeroAddress, "")]]
    /\ UNCHANGED <<router_cfg, router_events, vault_tokens, ar_pc, native_token_vault,
                   bridgehub, registered_assets>>

\* tokenAddress or name() fails for future i: unwrap() panics, and the panic
\* unwinds through join_all and L1AssetRouter::new
TaskCallErr(i) ==
    /\ ar_pc = "joining"
    /\ tasks[i].pc \in {"await_token", "await_name"}
    /\ tasks' = [tasks EXCEPT ![i] = [tasks[i] EXCEPT !.pc = "panicked"]]
    /\ ar_pc' = "panic"
    /\ UNCHANGED <<router_cfg, router_events, vault_tokens, native_token_vault,
                   bridgehub, registered_assets>>

\* every future is done: join_all yields the results in the order of the
\* futures and the map is collected from them
JoinAll ==
    /\ ar_pc = "joining"
    /\ \A i \in 1..Len(tasks) : tasks[i].pc = "done"
    /\ registered_assets' = FromIter(tasks, <<>>)
    /\ ar_pc' = "done"
    /\ UNCHANGED <<router_cfg, router_events, vault_tokens, native_token_vault,
                   bridgehub, tasks>>

AssetsNext ==
    \/ NativeTokenVaultOk
    \/ NativeTokenVaultErr
    \/ BridgeHubOk
    \/ BridgeHubErr
    \/ GetAllEventsOk
    \/ GetAllEventsErr
    \/ \E i \in 1..Len(tasks) : TaskPoll(i)
    \/ \E i \in 1..Len(tasks) : TaskTokenAddressOk(i)
    \/ \E i \in 1..Len(tasks) : TaskNameOk(i)
    \/ \E i \in 1..Len(tasks) : TaskCallErr(i)
    \/ JoinAll

\* no future has completed yet
JoinInit == completed = <<>>

JoinIdle == completed = <<>>

\* future i has just completed (with a value) if this step finished it
NoteCompletion(i) ==
    completed' = IF tasks[i].pc # "done" /\ tasks'[i].pc = "done"
                 THEN Append(completed, i)
                 ELSE completed

\* L1AssetRouter::new is not running
AssetsIdle ==
    /\ router_cfg = <<>>
    /\ router_events = <<>>
    /\ vault_tokens = <<>>
    /\ ar_pc = "idle"
    /\ native_token_vault = Unset
    /\ bridgehub = Unset
    /\ tasks = <<>>
    /\ registered_assets = <<>>

\* the name() calls future t has issued
NameCalls(t) == { j \in 1..Len(t.calls) : t.calls[j].fn = "name" }

\* the asset ids among the scanned logs
ScannedAssetIds == { router_events[i].asset_id : i \in 1..Len(router_events) }

-----------------------------------------------------------------------------
(* Claims about L1AssetRouter::new and RegisteredAsset::new *)

\* C4: a vault-tracked asset whose tokenAddress is the sentinel 0x..01 becomes
\* NativeTokenVault{0x..01, "ETH"} without any name() call; for any other
\* resolved token address exactly one name() call is issued, on that address;
\* no name() call is issued before the token address is resolved.
C4_NativeShortcut ==
    \A i \in 1..Len(tasks) :
        LET t == tasks[i]
        IN  IF t.token_address = Unset
            THEN NameCalls(t) = {}
            ELSE IF t.token_address = NativeSentinel
            THEN /\ t.tracker = native_token_vault
                 /\ t.pc = "done"
                 /\ t.handler = VaultHandler(NativeSentinel, "ETH")
                 /\ NameCalls(t) = {}
            ELSE /\ t.tracker = native_token_vault
                 /\ Cardinality(NameCalls(t)) = 1
                 /\ \A j \in NameCalls(t) : t.calls[j].target = t.token_address

\* C4's case: the router was built from one asset resolved to the sentinel and
\* one resolved to an ERC20 token.
C4_Witness ==
    /\ ar_pc = "done"
    /\ \E i \in 1..Len(tasks) : tasks[i].token_address = NativeSentinel
    /\ \E i \in 1..Len(tasks) : tasks[i].token_address = "dai"

\* C5: when L1AssetRouter::new returns, the keys of registered_assets are
\* exactly the asset ids of the scanned logs, each entry's asset_id is its key
\* and each handler is Bridgehub, NativeTokenVault or Other.
C5_ClassificationComplete ==
    ar_pc = "done" =>
        /\ DOMAIN registered_assets = ScannedAssetIds
        /\ \A k \in DOMAIN registered_assets :
               /\ registered_assets[k].asset_id = k
               /\ registered_assets[k].handler.kind \in
                      {"Bridgehub", "NativeTokenVault", "Other"}

\* C5's case: the router was built from two logs of the same asset id with
\* different trackers.
C5_Witness ==
    /\ ar_pc = "done"
    /\ Len(router_events) = 2
    /\ router_events[1].asset_id = router_events[2].asset_id
    /\ router_events[1].tracker # router_events[2].tracker
    /\ Cardinality(DOMAIN registered_assets) = 1

\* the classification the contracts' state gives the log ev
ClassificationOf(ev) ==
    IF ev.tracker = router_cfg.vault
    THEN LET token == vault_tokens[ev.asset_id]
         IN  VaultHandler(token, IF token = NativeSentinel THEN "ETH"
                                 ELSE TokenNameOf(token))
    ELSE IF ev.tracker = router_cfg.hub THEN BridgehubHandler
    ELSE OtherHandler(ev.tracker)

\* the position of the last scanned log that names asset id k
LastLogOf(k) ==
    CHOOSE i \in 1..Len(router_events) :
        /\ router_events[i].asset_id = k
        /\ \A j \in (i + 1)..Len(router_events) : router_events[j].asset_id # k

\* C14: when several logs name one asset id, the entry stored for that id is
\* the classification of the last such log in scan order, in whatever order
\* the classifications completed.
C14_LastLogWins ==
    ar_pc = "done" =>
        \A k \in DOMAIN registered_assets :
            registered_assets[k].handler = ClassificationOf(router_events[LastLogOf(k)])

\* C14's case: two logs name one asset id with different trackers, and the
\* classification of the second completed before that of the first
C14_Witness ==
    /\ ar_pc = "done"
    /\ Len(router_events) = 2
    /\ router_events[1].asset_id = router_events[2].asset_id
    /\ completed = <<2, 1>>
    /\ tasks[1].handler # tasks[2].handler
    /\ registered_assets[router_events[2].asset_id].handler = tasks[2].handler

\* C15: the map exists only once every classification has completed; when a
\* tokenAddress or name() call of any classification fails, new ends with the
\* failure and no map; a returned map has, for every entry, the handler the
\* contracts' state gives one of the logs of its asset id.
C15_JoinAndFailure ==
    /\ (ar_pc = "done" \/ registered_assets # <<>>) =>
           /\ \A i \in 1..Len(tasks) : tasks[i].pc = "done"
           /\ Len(completed) = Len(tasks)
    /\ (\E i \in 1..Len(tasks) : tasks[i].pc = "panicked") =>
           /\ ar_pc = "panic"
           /\ registered_assets = <<>>
    /\ ar_pc = "panic" => registered_assets = <<>>
    /\ ar_pc = "done" =>
           \A k \in DOMAIN registered_assets :
               \E i \in 1..Len(router_events) :
                   /\ router_events[i].asset_id = k
                   /\ registered_assets[k].handler = ClassificationOf(router_events[i])

\* C15's case: one classification has completed and another one's call fails
C15_Witness ==
    /\ ar_pc = "panic"
    /\ \E i, j \in 1..Len(tasks) :
           /\ tasks[i].pc = "done"
           /\ tasks[i].handler.kind = "NativeTokenVault"
           /\ tasks[j].pc = "panicked"
           /\ Len(tasks[j].calls) = 2

\* C19: a log whose tracker is the vault address takes the vault branch, which
\* starts with tokenAddress, also when the vault and the hub address are the
\* same; otherwise a tracker equal to the hub address gives Bridgehub; any
\* other tracker gives Other(tracker); the last two issue no call.
C19_Precedence ==
    \A i \in 1..Len(tasks) :
        LET t == tasks[i]
        IN  t.pc # "start" =>
                IF t.tracker = router_cfg.vault
                THEN /\ Len(t.calls) >= 1
                     /\ t.calls[1] = AssetCall("tokenAddress", router_cfg.vault, t.asset_id)
                     /\ t.pc = "done" => t.handler.kind = "NativeTokenVault"
                ELSE IF t.tracker = router_cfg.hub
                THEN t.pc = "done" /\ t.handler = BridgehubHandler /\ t.calls = <<>>
                ELSE t.pc = "done" /\ t.handler = OtherHandler(t.tracker) /\ t.calls = <<>>

\* C19's case: the vault and the hub have one address, and a log tracked by it
\* was classified next to a log of an unknown tracker
C19_Witness ==
    /\ ar_pc = "done"
    /\ router_cfg.vault = router_cfg.hub
    /\ \E i, j \in 1..Len(tasks) :
           /\ tasks[i].tracker = router_cfg.hub
           /\ tasks[i].handler.kind = "NativeTokenVault"
           /\ tasks[j].handler.kind = "Other"

-----------------------------------------------------------------------------
(* Bridgehub::detect_chains *)

\* most (chain id, address) pairs detect_hyperchains returns
MaxHyperchains == 2

\* the pairs detect_hyperchains may return: a chain id may come with more than
\* one contract address
HyperchainPairs == { <<c, a>> : c \in ChainIds, a \in {"hc1", "hc2"} }
HyperchainReplies == SeqsUpTo(HyperchainPairs, MaxHyperchains)

\* crate::stm::detect_hyperchains, taken as given: any list of pairs
DetectHyperchains == HyperchainReplies

NotAsked == [asked |-> FALSE, pairs |-> <<>>]

\* a dispatch that scans the hub's logs whatever the sequencer's role
DetectBranch_AlwaysScan(t) == "scan"

\* match sequencer.sequencer_type
DetectBranch(t) == IF t = "L1" THEN "scan" ELSE "hyperchains"

\* hyperchains.iter().map(|(chain, _)| chain.clone()).collect()
ChainIdsOf(pairs) == { pairs[i][1] : i \in 1..Len(pairs) }

DetectInit ==
    /\ head \in Heads
    /\ window = WINDOW
    /\ chainLogs \in Histories(head)
    /\ scan_pc = "idle"
    /\ current_block = 0
    /\ known_chains = {}
    /\ filter = NoFilter
    /\ queries = <<>>
    /\ replies = <<>>
    /\ sequencer_type \in {"L1", "L2"}
    /\ hyperchains = NotAsked
    /\ detect_pc = "start"
    /\ detect_result = NotReturned

\* SequencerType::L1: detect_chains_with_newchain_event(sequencer, bridgehub)
\* is called
DetectDispatchL1 ==
    /\ detect_pc = "start"
    /\ DetectBranch(sequencer_type) = "scan"
    /\ scan_pc' = "start"
    /\ detect_pc' = "scanning"
    /\ UNCHANGED <<head, chainLogs, window, current_block, known_chains, filter,
                   queries, replies, sequencer_type, hyperchains, detect_result>>

\* the scan's outcome is detect_chains' outcome
DetectScanReturn ==
    /\ detect_pc = "scanning"
    /\ scan_pc \in {"done", "err", "panic"}
    /\ detect_result' = ScanResult
    /\ detect_pc' = scan_pc
    /\ UNCHANGED <<scanVars, sequencer_type, hyperchains>>

\* SequencerType::L2(_): detect_hyperchains(sequencer) is called
DetectDispatchL2 ==
    /\ detect_pc = "start"
    /\ DetectBranch(sequencer_type) = "hyperchains"
    /\ detect_pc' = "await_hyperchains"
    /\ UNCHANGED <<scanVars, sequencer_type, hyperchains, detect_result>>

\* detect_hyperchains(sequencer).await? returns its pairs
DetectHyperchainsOk ==
    /\ detect_pc = "await_hyperchains"
    /\ \E hs \in DetectHyperchains :
           /\ hyperchains' = [asked |-> TRUE, pairs |-> hs]
           /\ detect_result' = [returned |-> TRUE, ok |-> TRUE, chains |-> ChainIdsOf(hs)]
    /\ detect_pc' = "done"
    /\ UNCHANGED <<scanVars, sequencer_type>>

\* detect_hyperchains(sequencer).await? fails
DetectHyperchainsErr ==
    /\ detect_pc = "await_hyperchains"
    /\ hyperchains' = [asked |-> TRUE, pairs |-> <<>>]
    /\ detect_result' = [returned |-> TRUE, ok |-> FALSE, chains |-> {}]
    /\ detect_pc' = "err"
    /\ UNCHANGED <<scanVars, sequencer_type>>

\* detect_chains is not running
DetectIdle ==
    /\ sequencer_type = "L1"
    /\ hyperchains = NotAsked
    /\ detect_pc = "idle"
    /\ detect_result = NotReturned

-----------------------------------------------------------------------------
(* Claims about detect_chains *)

\* C11: with an L1 sequencer, detect_chains runs the windowed log scan, all of
\* whose queries go to the hub address, and returns the scan's set without
\* asking detect_hyperchains; with an L2 sequencer it never issues a log
\* query and returns the set of the first components of the pairs that
\* detect_hyperchains returned, each id once.
C11_DispatchOnRole ==
    /\ sequencer_type = "L2" => queries = <<>> /\ replies = <<>> /\ scan_pc = "idle"
    /\ sequencer_type = "L1" => ~hyperchains.asked
    /\ detect_pc = "done" =>
           /\ detect_result.returned /\ detect_result.ok
           /\ IF sequencer_type = "L1"
              THEN /\ scan_pc = "done"
                   /\ Len(replies) >= 1
                   /\ \A i \in 1..Len(queries) : queries[i].address = HubAddress
                   /\ detect_result.chains = known_chains
              ELSE /\ hyperchains.asked
                   /\ \A c \in ChainIds :
                          c \in detect_result.chains <=>
                              \E i \in 1..Len(hyperchains.pairs) :
                                  hyperchains.pairs[i][1] = c

\* C11's case: an L2 sequencer whose hyperchain list names one chain id twice,
\* over a root chain that does hold NewChain logs
C11_Witness ==
    /\ detect_pc = "done"
    /\ sequencer_type = "L2"
    /\ Len(hyperchains.pairs) = 2
    /\ hyperchains.pairs[1][1] = hyperchains.pairs[2][1]
    /\ hyperchains.pairs[1][2] # hyperchains.pairs[2][2]
    /\ Cardinality(detect_result.chains) = 1
    /\ HubNewChainLogs # {}

-----------------------------------------------------------------------------
(* The specifications, one per entry point *)

ScanSpecInit ==
    ScanInit /\ DetailsIdle /\ RerunIdle /\ AssetsIdle /\ JoinIdle /\ StIdle /\ DetectIdle

ScanStep ==
    \/ GetBlockNumberOk /\ UNCHANGED <<detailsVars, assetVars, stVars, detectVars, rerunVars, joinVars>>
    \/ GetBlockNumberErr /\ UNCHANGED <<detailsVars, assetVars, stVars, detectVars, rerunVars, joinVars>>
    \/ SendGetLogs /\ UNCHANGED <<detailsVars, assetVars, stVars, detectVars, rerunVars, joinVars>>
    \/ RecvLogsOk /\ UNCHANGED <<detailsVars, assetVars, stVars, detectVars, rerunVars, joinVars>>
    \/ RecvLogsErr /\ UNCHANGED <<detailsVars, assetVars, stVars, detectVars, rerunVars, joinVars>>
    \/ ScanReturn /\ UNCHANGED <<detailsVars, assetVars, stVars, detectVars, rerunVars, joinVars>>

\* Bridgehub::detect_chains_with_newchain_event
SpecScan == ScanSpecInit /\ [][ScanStep]_vars

DetailsSpecInit ==
    DetailsInit /\ RerunInit /\ ScanIdle /\ AssetsIdle /\ JoinIdle /\ StIdle /\ DetectIdle

DetailsStep ==
    \/ PrintStart /\ UNCHANGED <<scanVars, assetVars, stVars, detectVars, rerunVars, joinVars>>
    \/ NextChain /\ UNCHANGED <<scanVars, assetVars, stVars, detectVars, rerunVars, joinVars>>
    \/ QueryStm /\ UNCHANGED <<scanVars, assetVars, stVars, detectVars, rerunVars, joinVars>>
    \/ QueryBaseToken /\ UNCHANGED <<scanVars, assetVars, stVars, detectVars, rerunVars, joinVars>>
    \/ QueryHyperchain /\ UNCHANGED <<scanVars, assetVars, stVars, detectVars, rerunVars, joinVars>>
    \/ QuerySharedBridge /\ UNCHANGED <<scanVars, assetVars, stVars, detectVars, rerunVars, joinVars>>
    \/ QueryValidatorTimelock /\ UNCHANGED <<scanVars, assetVars, stVars, detectVars, rerunVars, joinVars>>
    \/ QueryStmAssetId /\ UNCHANGED <<scanVars, assetVars, stVars, detectVars, rerunVars, joinVars>>
    \/ PrintDone /\ UNCHANGED <<scanVars, assetVars, stVars, detectVars, rerunVars, joinVars>>
    \/ PrintAgain /\ UNCHANGED <<scanVars, assetVars, stVars, detectVars, joinVars>>

DetectSpecInit == DetectInit /\ DetailsIdle /\ RerunIdle /\ AssetsIdle /\ JoinIdle /\ StIdle

DetectStep ==
    \/ DetectDispatchL1 /\ UNCHANGED <<detailsVars, assetVars, stVars, rerunVars, joinVars>>
    \/ DetectDispatchL2 /\ UNCHANGED <<detailsVars, assetVars, stVars, rerunVars, joinVars>>
    \/ DetectHyperchainsOk /\ UNCHANGED <<detailsVars, assetVars, stVars, rerunVars, joinVars>>
    \/ DetectHyperchainsErr /\ UNCHANGED <<detailsVars, assetVars, stVars, rerunVars, joinVars>>
    \/ GetBlockNumberOk /\ UNCHANGED <<detailsVars, assetVars, stVars, detectVars, rerunVars, joinVars>>
    \/ GetBlockNumberErr /\ UNCHANGED <<detailsVars, assetVars, stVars, detectVars, rerunVars, joinVars>>
    \/ SendGetLogs /\ UNCHANGED <<detailsVars, assetVars, stVars, detectVars, rerunVars, joinVars>>
    \/ RecvLogsOk /\ UNCHANGED <<detailsVars, assetVars, stVars, detectVars, rerunVars, joinVars>>
    \/ RecvLogsErr /\ UNCHANGED <<detailsVars, assetVars, stVars, detectVars, rerunVars, joinVars>>
    \/ ScanReturn /\ UNCHANGED <<detailsVars, assetVars, stVars, detectVars, rerunVars, joinVars>>
    \/ DetectScanReturn /\ UNCHANGED <<detailsVars, assetVars, stVars, rerunVars, joinVars>>

\* Bridgehub::detect_chains
SpecDetect == DetectSpecInit /\ [][DetectStep]_vars

\* Bridgehub::print_detailed_info
SpecDetails == DetailsSpecInit /\ [][DetailsStep]_vars

AssetsSpecInit ==
    AssetsInit /\ JoinInit /\ ScanIdle /\ DetailsIdle /\ RerunIdle /\ StIdle /\ DetectIdle

AssetsStep ==
    \/ NativeTokenVaultOk /\ UNCHANGED <<scanVars, detailsVars, stVars, detectVars, rerunVars, joinVars>>
    \/ NativeTokenVaultErr /\ UNCHANGED <<scanVars, detailsVars, stVars, detectVars, rerunVars, joinVars>>
    \/ BridgeHubOk /\ UNCHANGED <<scanVars, detailsVars, stVars, detectVars, rerunVars, joinVars>>
    \/ BridgeHubErr /\ UNCHANGED <<scanVars, detailsVars, stVars, detectVars, rerunVars, joinVars>>
    \/ GetAllEventsOk /\ UNCHANGED <<scanVars, detailsVars, stVars, detectVars, rerunVars, joinVars>>
    \/ GetAllEventsErr /\ UNCHANGED <<scanVars, detailsVars, stVars, detectVars, rerunVars, joinVars>>
    \/ \E i \in 1..Len(tasks) :
           TaskPoll(i) /\ NoteCompletion(i)
               /\ UNCHANGED <<scanVars, detailsVars, stVars, detectVars, rerunVars>>
    \/ \E i \in 1..Len(tasks) :
           TaskTokenAddressOk(i) /\ NoteCompletion(i)
               /\ UNCHANGED <<scanVars, detailsVars, stVars, detectVars, rerunVars>>
    \/ \E i \in 1..Len(tasks) :
           TaskNameOk(i) /\ NoteCompletion(i)
               /\ UNCHANGED <<scanVars, detailsVars, stVars, detectVars, rerunVars>>
    \/ \E i \in 1..Len(tasks) :
           TaskCallErr(i) /\ NoteCompletion(i)
               /\ UNCHANGED <<scanVars, detailsVars, stVars, detectVars, rerunVars>>
    \/ JoinAll /\ UNCHANGED <<scanVars, detailsVars, stVars, detectVars, rerunVars, joinVars>>

\* L1AssetRouter::new
SpecAssets == AssetsSpecInit /\ [][AssetsStep]_vars

StSpecInit ==
    StInit /\ ScanIdle /\ DetailsIdle /\ RerunIdle /\ AssetsIdle /\ JoinIdle /\ DetectIdle

StStep ==
    \/ StCallOk /\ UNCHANGED <<scanVars, detailsVars, assetVars, detectVars, rerunVars, joinVars>>
    \/ StCallErr /\ UNCHANGED <<scanVars, detailsVars, assetVars, detectVars, rerunVars, joinVars>>
    \/ StReturn /\ UNCHANGED <<scanVars, detailsVars, assetVars, detectVars, rerunVars, joinVars>>

\* StateTransition::new
SpecST == StSpecInit /\ [][StStep]_vars

=============================================================================
